---- MODULE Spec2Model ----
(***************************************************************************)
(* A model of src/chapter2.js: the SIMPLE language of "Understanding       *)
(* Computation" in JavaScript.  Nodes are Struct instances, an environment *)
(* is a plain JS object whose properties are nodes, and each node class    *)
(* has reducible/reduce (small step), evaluate (big step) and toJs         *)
(* (translation to JavaScript source that is passed to eval).              *)
(*                                                                         *)
(* Every JavaScript value of the model is a record with a "type" field:    *)
(*   primitives  number, boolean, string, NaN, undefined                   *)
(*   nodes       Number, Boolean, Variable, Add, ... (the Struct classes)  *)
(*   Object      an environment object, props: name -> value               *)
(*   TypeError   the exception JavaScript throws on a property access of   *)
(*               undefined; it propagates through every caller             *)
(*   Diverge     a computation cut off by the bound MaxIter                *)
(* JavaScript numbers are IEEE doubles; every number of the bounded model  *)
(* is an integer far below 2^53, where double arithmetic is exact.         *)
(***************************************************************************)
EXTENDS Integers, Sequences, FiniteSets, TLC

\* ---------------------------------------------------------------- bounds
MaxNum == 1
MaxOps == 2
MaxSteps == 24
MaxIter == 3

\* ------------------------------------------------- JavaScript primitives
JsNumber(n) == [type |-> "number", value |-> n]
JsBoolean(b) == [type |-> "boolean", value |-> b]
JsString(s) == [type |-> "string", value |-> s]
NaN == [type |-> "NaN"]
undefined == [type |-> "undefined"]
TypeError == [type |-> "TypeError"]
Diverge == [type |-> "Diverge"]

Abrupt(v) == v = TypeError \/ v = Diverge

PrimitiveTypes == {"number", "boolean", "string", "NaN", "undefined"}

\* ---------------------------------------------------------------- nodes
Number(value) == [type |-> "Number", value |-> value]
Boolean(value) == [type |-> "Boolean", value |-> value]
Variable(name) == [type |-> "Variable", name |-> name]
Add(left, right) == [type |-> "Add", left |-> left, right |-> right]
Multiply(left, right) == [type |-> "Multiply", left |-> left, right |-> right]
LessThan(left, right) == [type |-> "LessThan", left |-> left, right |-> right]
DoNothing == [type |-> "DoNothing"]
Assign(name, expression) == [type |-> "Assign", name |-> name, expression |-> expression]
If(condition, consequence, alternative) ==
    [type |-> "If", condition |-> condition, consequence |-> consequence,
     alternative |-> alternative]
Sequence(first, second) == [type |-> "Sequence", first |-> first, second |-> second]
While(condition, body) == [type |-> "While", condition |-> condition, body |-> body]

\* literal nodes as the sample programs build them
Num(n) == Number(JsNumber(n))
Bool(b) == Boolean(JsBoolean(b))

BinaryTypes == {"Add", "Multiply", "LessThan"}
LiteralTypes == {"Number", "Boolean"}

\* The heap maps an object id to the property table of that object; an
\* environment is a reference to a heap object, so every holder of the
\* reference sees an assignment made through any of them.
Object(id) == [type |-> "Object", id |-> id]
EmptyProps == [n \in {} |-> undefined]

\* what a call returns (or throws), together with the heap it leaves
Result(value, heap) == [value |-> value, heap |-> heap]

\* obj[key]: a missing property reads as undefined, a read on undefined throws
GetProp(heap, obj, key) ==
    IF obj.type = "undefined" THEN TypeError
    ELSE IF obj.type = "Object"
         THEN IF key \in DOMAIN heap[obj.id] THEN heap[obj.id][key] ELSE undefined
         ELSE undefined

\* v.value
GetValue(v) ==
    IF v.type = "undefined" THEN TypeError
    ELSE IF v.type \in LiteralTypes THEN v.value
    ELSE undefined

\* ---------------------------------------------- JavaScript conversions
Digits == <<"0", "1", "2", "3", "4", "5", "6", "7", "8", "9">>

RECURSIVE NatToStr(_)
NatToStr(n) ==
    IF n < 10 THEN <<Digits[n + 1]>>
    ELSE NatToStr(n \div 10) \o <<Digits[(n % 10) + 1]>>

\* String(n) for an integer n
IntToStr(n) == IF n < 0 THEN <<"-">> \o NatToStr(0 - n) ELSE NatToStr(n)

\* ToString of a primitive
ToStr(p) ==
    CASE p.type = "number" -> IntToStr(p.value)
      [] p.type = "boolean" ->
            IF p.value THEN <<"t", "r", "u", "e">> ELSE <<"f", "a", "l", "s", "e">>
      [] p.type = "string" -> p.value
      [] p.type = "NaN" -> <<"N", "a", "N">>
      [] OTHER -> <<"u", "n", "d", "e", "f", "i", "n", "e", "d">>

DigitVal(c) == CHOOSE d \in 0..9 : Digits[d + 1] = c
IsDigit(c) == \E d \in 1..10 : Digits[d] = c

RECURSIVE DigitsToNat(_)
DigitsToNat(s) ==
    IF Len(s) = 0 THEN 0
    ELSE 10 * DigitsToNat(SubSeq(s, 1, Len(s) - 1)) + DigitVal(s[Len(s)])

\* ToNumber of a string: the StringNumericLiteral grammar restricted to the
\* characters the model's strings contain (digits, "-", letters)
StrToNum(s) ==
    IF Len(s) = 0 THEN JsNumber(0)
    ELSE IF \A i \in 1..Len(s) : IsDigit(s[i]) THEN JsNumber(DigitsToNat(s))
    ELSE IF Len(s) > 1 /\ s[1] = "-" /\ \A i \in 2..Len(s) : IsDigit(s[i])
         THEN JsNumber(0 - DigitsToNat(Tail(s)))
    ELSE NaN

\* code-unit order of the characters the model's strings contain
CharOrder == <<"-", "0", "1", "2", "3", "4", "5", "6", "7", "8", "9",
               "N", "a", "d", "e", "f", "i", "l", "n", "r", "s", "t", "u">>
CharRank(c) == CHOOSE i \in 1..Len(CharOrder) : CharOrder[i] = c

RECURSIVE StrLess(_, _)
StrLess(s, t) ==
    IF Len(t) = 0 THEN FALSE
    ELSE IF Len(s) = 0 THEN TRUE
    ELSE IF s[1] = t[1] THEN StrLess(Tail(s), Tail(t))
    ELSE CharRank(s[1]) < CharRank(t[1])

\* ToPrimitive: a primitive is itself; a node object has no primitive valueOf,
\* so its toString() is called: String(this.value) for Number, this.value for
\* Boolean.  Environments bind names to literal nodes or primitives only, so
\* no other object is ever an operand; the last branch is never taken.
ToPrimitive(v) ==
    IF v.type \in PrimitiveTypes THEN v
    ELSE IF v.type = "Number" THEN JsString(ToStr(v.value))
    ELSE IF v.type = "Boolean" THEN v.value
    ELSE JsString(<<>>)

ToNumber(p) ==
    CASE p.type = "number" -> p
      [] p.type = "boolean" -> JsNumber(IF p.value THEN 1 ELSE 0)
      [] p.type = "string" -> StrToNum(p.value)
      [] OTHER -> NaN

ToBoolean(v) ==
    CASE v.type = "boolean" -> v.value
      [] v.type = "number" -> v.value # 0
      [] v.type = "string" -> Len(v.value) > 0
      [] v.type \in {"NaN", "undefined"} -> FALSE
      [] OTHER -> TRUE

\* a + b
JsPlus(a, b) ==
    LET pa == ToPrimitive(a)
        pb == ToPrimitive(b)
        na == ToNumber(pa)
        nb == ToNumber(pb)
    IN  IF pa.type = "string" \/ pb.type = "string"
        THEN JsString(ToStr(pa) \o ToStr(pb))
        ELSE IF na = NaN \/ nb = NaN THEN NaN
        ELSE JsNumber(na.value + nb.value)

\* a * b
JsTimes(a, b) ==
    LET na == ToNumber(ToPrimitive(a))
        nb == ToNumber(ToPrimitive(b))
    IN  IF na = NaN \/ nb = NaN THEN NaN ELSE JsNumber(na.value * nb.value)

\* a < b
JsLess(a, b) ==
    LET pa == ToPrimitive(a)
        pb == ToPrimitive(b)
        na == ToNumber(pa)
        nb == ToNumber(pb)
    IN  IF pa.type = "string" /\ pb.type = "string"
        THEN JsBoolean(StrLess(pa.value, pb.value))
        ELSE IF na = NaN \/ nb = NaN THEN JsBoolean(FALSE)
        ELSE JsBoolean(na.value < nb.value)

\* ------------------------------------------------------------ reducible
IsNode(v) == v.type \notin PrimitiveTypes /\ v.type # "Object" /\ v.type # "Array"

reducible(node) == node.type \notin {"Number", "Boolean", "DoNothing"}

\* node.reducible() throws when node is not a node object
CanAskReducible(v) == IsNode(v)

\* the two-element array a statement's reduce returns
Array(first, second) == [type |-> "Array", at0 |-> first, at1 |-> second]

\* reduced[0], reduced[1]
Index0(v) == IF v.type = "undefined" THEN TypeError
             ELSE IF v.type = "Array" THEN v.at0 ELSE undefined
Index1(v) == IF v.type = "undefined" THEN TypeError
             ELSE IF v.type = "Array" THEN v.at1 ELSE undefined

\* ---------------------------------------------------------------- merge
\* obj[key] = val; return obj.  The assignment is made in the object itself.
\* (strict mode: an assignment to a property of a non-object throws)
SetProp(heap, obj, key, val) ==
    IF obj.type # "Object" THEN Result(TypeError, heap)
    ELSE Result(obj,
                [heap EXCEPT ![obj.id] =
                    [n \in DOMAIN @ \cup {key} |-> IF n = key THEN val ELSE @[n]]])

\* a merge that builds the result from the new binding alone
mergeReplacing(heap, obj, key, val) ==
    IF obj.type # "Object" THEN Result(TypeError, heap)
    ELSE Result(obj, [heap EXCEPT ![obj.id] = [n \in {key} |-> val]])

merge(heap, obj, key, val) == SetProp(heap, obj, key, val)

\* --------------------------------------------------------------- reduce
\* a LessThan copied from Add that still builds the Number of the sum
ComputeCopied(type, l, r) ==
    CASE type = "Add" -> Number(JsPlus(l, r))
      [] type = "Multiply" -> Number(JsTimes(l, r))
      [] type = "LessThan" -> Number(JsPlus(l, r))

\* the literal an operator node becomes once both operands are literals
Compute(type, l, r) ==
    CASE type = "Add" -> Number(JsPlus(l, r))
      [] type = "Multiply" -> Number(JsTimes(l, r))
      [] type = "LessThan" -> Boolean(JsLess(l, r))

Binary(type, left, right) == [type |-> type, left |-> left, right |-> right]

RECURSIVE reduce(_, _, _)

\* a slip in the second branch: the reduced right operand is put on the left
BinaryReduceMisplaced(node, env, heap) ==
    IF ~CanAskReducible(node.left) THEN Result(TypeError, heap)
    ELSE IF reducible(node.left)
    THEN LET r == reduce(node.left, env, heap)
         IN  IF Abrupt(r.value) THEN r
             ELSE Result(Binary(node.type, r.value, node.right), r.heap)
    ELSE IF ~CanAskReducible(node.right) THEN Result(TypeError, heap)
    ELSE IF reducible(node.right)
    THEN LET r == reduce(node.right, env, heap)
         IN  IF Abrupt(r.value) THEN r
             ELSE Result(Binary(node.type, r.value, node.left), r.heap)
    ELSE Result(Compute(node.type, GetValue(node.left), GetValue(node.right)), heap)

\* Add.reduce, Multiply.reduce, LessThan.reduce
BinaryReduce(node, env, heap) ==
    IF ~CanAskReducible(node.left) THEN Result(TypeError, heap)
    ELSE IF reducible(node.left)
    THEN LET r == reduce(node.left, env, heap)
         IN  IF Abrupt(r.value) THEN r
             ELSE Result(Binary(node.type, r.value, node.right), r.heap)
    ELSE IF ~CanAskReducible(node.right) THEN Result(TypeError, heap)
    ELSE IF reducible(node.right)
    THEN LET r == reduce(node.right, env, heap)
         IN  IF Abrupt(r.value) THEN r
             ELSE Result(Binary(node.type, node.left, r.value), r.heap)
    ELSE Result(Compute(node.type, GetValue(node.left), GetValue(node.right)), heap)

\* a Variable that reduces to itself
VariableReduceSelf(node, env, heap) == Result(node, heap)

VariableReduce(node, env, heap) == Result(GetProp(heap, env, node.name), heap)

\* an Assign that binds the name as soon as its expression has made one step
AssignReduceEager(node, env, heap) ==
    IF ~CanAskReducible(node.expression) THEN Result(TypeError, heap)
    ELSE IF reducible(node.expression)
    THEN LET r == reduce(node.expression, env, heap)
             m == merge(r.heap, env, node.name, r.value)
         IN  IF Abrupt(r.value) THEN r
             ELSE IF Abrupt(m.value) THEN m
             ELSE Result(Array(DoNothing, m.value), m.heap)
    ELSE LET m == merge(heap, env, node.name, node.expression)
         IN  IF Abrupt(m.value) THEN m
             ELSE Result(Array(DoNothing, m.value), m.heap)

AssignReduce(node, env, heap) ==
    IF ~CanAskReducible(node.expression) THEN Result(TypeError, heap)
    ELSE IF reducible(node.expression)
    THEN LET r == reduce(node.expression, env, heap)
         IN  IF Abrupt(r.value) THEN r
             ELSE Result(Array(Assign(node.name, r.value), env), r.heap)
    ELSE LET m == merge(heap, env, node.name, node.expression)
         IN  IF Abrupt(m.value) THEN m
             ELSE Result(Array(DoNothing, m.value), m.heap)

\* an If that takes the alternative on true and the consequence on false
IfReduceSwapped(node, env, heap) ==
    IF ~CanAskReducible(node.condition) THEN Result(TypeError, heap)
    ELSE IF reducible(node.condition)
    THEN LET r == reduce(node.condition, env, heap)
         IN  IF Abrupt(r.value) THEN r
             ELSE Result(Array(If(r.value, node.consequence, node.alternative), env),
                         r.heap)
    ELSE IF GetValue(node.condition) = JsBoolean(TRUE)
    THEN Result(Array(node.alternative, env), heap)
    ELSE IF GetValue(node.condition) = JsBoolean(FALSE)
    THEN Result(Array(node.consequence, env), heap)
    ELSE Result(undefined, heap)

\* no return statement is reached when the condition's value is neither true
\* nor false: the call returns undefined
IfReduce(node, env, heap) ==
    IF ~CanAskReducible(node.condition) THEN Result(TypeError, heap)
    ELSE IF reducible(node.condition)
    THEN LET r == reduce(node.condition, env, heap)
         IN  IF Abrupt(r.value) THEN r
             ELSE Result(Array(If(r.value, node.consequence, node.alternative), env),
                         r.heap)
    ELSE IF GetValue(node.condition) = JsBoolean(TRUE)
    THEN Result(Array(node.consequence, env), heap)
    ELSE IF GetValue(node.condition) = JsBoolean(FALSE)
    THEN Result(Array(node.alternative, env), heap)
    ELSE Result(undefined, heap)

\* a Sequence that hands over to second in the very step that finishes first
SequenceReduceEager(node, env, heap) ==
    IF node.first.type = "DoNothing" THEN Result(Array(node.second, env), heap)
    ELSE LET reduced == reduce(node.first, env, heap)
         IN  IF Abrupt(reduced.value) THEN reduced
             ELSE IF Abrupt(Index0(reduced.value)) THEN Result(TypeError, reduced.heap)
             ELSE IF Index0(reduced.value).type = "DoNothing"
             THEN Result(Array(node.second, Index1(reduced.value)), reduced.heap)
             ELSE Result(Array(Sequence(Index0(reduced.value), node.second),
                               Index1(reduced.value)),
                         reduced.heap)

SequenceReduce(node, env, heap) ==
    IF node.first.type = "DoNothing" THEN Result(Array(node.second, env), heap)
    ELSE LET reduced == reduce(node.first, env, heap)
         IN  IF Abrupt(reduced.value) THEN reduced
             ELSE IF Abrupt(Index0(reduced.value)) THEN Result(TypeError, reduced.heap)
             ELSE Result(Array(Sequence(Index0(reduced.value), node.second),
                               Index1(reduced.value)),
                         reduced.heap)

\* an unrolling that forgets to put the loop after the body
WhileReduceOnce(node, env, heap) ==
    Result(Array(If(node.condition, node.body, DoNothing), env), heap)

WhileReduce(node, env, heap) ==
    Result(Array(If(node.condition, Sequence(node.body, node), DoNothing), env), heap)

\* node.reduce(env): a call on a value without a reduce method throws
reduce(node, env, heap) ==
    CASE node.type \in BinaryTypes -> BinaryReduce(node, env, heap)
      [] node.type = "Variable" -> VariableReduce(node, env, heap)
      [] node.type = "Assign" -> AssignReduce(node, env, heap)
      [] node.type = "If" -> IfReduce(node, env, heap)
      [] node.type = "Sequence" -> SequenceReduce(node, env, heap)
      [] node.type = "While" -> WhileReduce(node, env, heap)
      [] OTHER -> Result(TypeError, heap)

\* ------------------------------------------------------------- evaluate
RECURSIVE Eval(_, _, _, _)

\* Add.evaluate, Multiply.evaluate, LessThan.evaluate: left operand and its
\* .value, then the right operand and its .value
BinaryEvaluate(node, env, heap) ==
    LET l == Eval(node.left, env, heap, MaxIter)
    IN  IF Abrupt(l.value) THEN l
        ELSE IF Abrupt(GetValue(l.value)) THEN Result(TypeError, l.heap)
        ELSE LET r == Eval(node.right, env, l.heap, MaxIter)
             IN  IF Abrupt(r.value) THEN r
                 ELSE IF Abrupt(GetValue(r.value)) THEN Result(TypeError, r.heap)
                 ELSE Result(Compute(node.type, GetValue(l.value), GetValue(r.value)),
                             r.heap)

VariableEvaluate(node, env, heap) == Result(GetProp(heap, env, node.name), heap)

AssignEvaluate(node, env, heap) ==
    LET v == Eval(node.expression, env, heap, MaxIter)
    IN  IF Abrupt(v.value) THEN v
        ELSE merge(v.heap, env, node.name, v.value)

\* an If that takes the alternative on true and the consequence on false
IfEvaluateSwapped(node, env, heap) ==
    LET ret == Eval(node.condition, env, heap, MaxIter)
    IN  IF Abrupt(ret.value) THEN ret
        ELSE IF Abrupt(GetValue(ret.value)) THEN Result(TypeError, ret.heap)
        ELSE IF GetValue(ret.value) = JsBoolean(TRUE)
        THEN Eval(node.alternative, env, ret.heap, MaxIter)
        ELSE IF GetValue(ret.value) = JsBoolean(FALSE)
        THEN Eval(node.consequence, env, ret.heap, MaxIter)
        ELSE Result(undefined, ret.heap)

IfEvaluate(node, env, heap) ==
    LET ret == Eval(node.condition, env, heap, MaxIter)
    IN  IF Abrupt(ret.value) THEN ret
        ELSE IF Abrupt(GetValue(ret.value)) THEN Result(TypeError, ret.heap)
        ELSE IF GetValue(ret.value) = JsBoolean(TRUE)
        THEN Eval(node.consequence, env, ret.heap, MaxIter)
        ELSE IF GetValue(ret.value) = JsBoolean(FALSE)
        THEN Eval(node.alternative, env, ret.heap, MaxIter)
        ELSE Result(undefined, ret.heap)

\* a Sequence that evaluates second before first
SequenceEvaluateSwapped(node, env, heap) ==
    LET second == Eval(node.second, env, heap, MaxIter)
    IN  IF Abrupt(second.value) THEN second
        ELSE Eval(node.first, second.value, second.heap, MaxIter)

SequenceEvaluate(node, env, heap) ==
    LET first == Eval(node.first, env, heap, MaxIter)
    IN  IF Abrupt(first.value) THEN first
        ELSE Eval(node.second, first.value, first.heap, MaxIter)

\* While.evaluate calls itself once per iteration; iter counts the iterations
\* this loop may still make before the model cuts it off as Diverge
WhileEvaluate(node, env, heap, iter) ==
    LET ret == Eval(node.condition, env, heap, MaxIter)
    IN  IF Abrupt(ret.value) THEN ret
        ELSE IF Abrupt(GetValue(ret.value)) THEN Result(TypeError, ret.heap)
        ELSE IF GetValue(ret.value) = JsBoolean(TRUE)
        THEN IF iter = 0 THEN Result(Diverge, ret.heap)
             ELSE LET body == Eval(node.body, env, ret.heap, MaxIter)
                  IN  IF Abrupt(body.value) THEN body
                      ELSE Eval(node, body.value, body.heap, iter - 1)
        ELSE IF GetValue(ret.value) = JsBoolean(FALSE)
        THEN Result(env, ret.heap)
        ELSE Result(undefined, ret.heap)

Eval(node, env, heap, iter) ==
    CASE node.type \in LiteralTypes -> Result(node, heap)
      [] node.type \in BinaryTypes -> BinaryEvaluate(node, env, heap)
      [] node.type = "Variable" -> VariableEvaluate(node, env, heap)
      [] node.type = "DoNothing" -> Result(env, heap)
      [] node.type = "Assign" -> AssignEvaluate(node, env, heap)
      [] node.type = "If" -> IfEvaluate(node, env, heap)
      [] node.type = "Sequence" -> SequenceEvaluate(node, env, heap)
      [] node.type = "While" -> WhileEvaluate(node, env, heap, iter)
      [] OTHER -> Result(TypeError, heap)

\* node.evaluate(env)
evaluate(node, env, heap) == Eval(node, env, heap, MaxIter)

\* ----------------------------------------------------------------- toJs
\* toJs returns the source text of a one-argument function; the model keeps
\* the text as a tree with one kind of function per template.  A literal is
\* spliced in as text (`${this}` calls toString) and is parsed again by eval.
Function(body, fields) == [type |-> "function", body |-> body, fields |-> fields]

SourceText(node) == ToStr(ToPrimitive(node))

RECURSIVE toJs(_)

\* Number.toJs, Boolean.toJs: (function(e) { return <text> })
LiteralToJs(node) == Function("literal", [text |-> SourceText(node)])

\* Add.toJs, Multiply.toJs, LessThan.toJs: left(e) <op> right(e)
BinaryToJs(node) ==
    Function(node.type, [left |-> toJs(node.left), right |-> toJs(node.right)])

\* return e.<name>
VariableToJs(node) == Function("read", [name |-> node.name])

\* return e
DoNothingToJs(node) == Function("identity", [text |-> <<>>])

\* e.<name> = expression(e); return e
AssignToJs(node) ==
    Function("assign", [name |-> node.name, expression |-> toJs(node.expression)])

\* a translation of If with the two branches exchanged
IfToJsSwapped(node) ==
    Function("if", [condition |-> toJs(node.condition),
                    consequence |-> toJs(node.alternative),
                    alternative |-> toJs(node.consequence)])

\* if (condition(e)) { return consequence(e) } else { return alternative(e) }
IfToJs(node) ==
    Function("if", [condition |-> toJs(node.condition),
                    consequence |-> toJs(node.consequence),
                    alternative |-> toJs(node.alternative)])

\* return second(first(e))
SequenceToJs(node) ==
    Function("compose", [first |-> toJs(node.first), second |-> toJs(node.second)])

\* while (condition(e)) { e = body(e) } return e
WhileToJs(node) ==
    Function("while", [condition |-> toJs(node.condition), body |-> toJs(node.body)])

toJs(node) ==
    CASE node.type \in LiteralTypes -> LiteralToJs(node)
      [] node.type \in BinaryTypes -> BinaryToJs(node)
      [] node.type = "Variable" -> VariableToJs(node)
      [] node.type = "DoNothing" -> DoNothingToJs(node)
      [] node.type = "Assign" -> AssignToJs(node)
      [] node.type = "If" -> IfToJs(node)
      [] node.type = "Sequence" -> SequenceToJs(node)
      [] node.type = "While" -> WhileToJs(node)
      [] OTHER -> TypeError

\* the value of a spliced literal when the source text is evaluated
ParseLiteral(text) ==
    IF text = <<"t", "r", "u", "e">> THEN JsBoolean(TRUE)
    ELSE IF text = <<"f", "a", "l", "s", "e">> THEN JsBoolean(FALSE)
    ELSE IF text = <<"u", "n", "d", "e", "f", "i", "n", "e", "d">> THEN undefined
    ELSE StrToNum(text)

JsBinary(type, a, b) ==
    CASE type = "Add" -> JsPlus(a, b)
      [] type = "Multiply" -> JsTimes(a, b)
      [] type = "LessThan" -> JsLess(a, b)

\* eval(source)(e): the call of the function a toJs text denotes
RECURSIVE Invoke(_, _, _, _)
Invoke(f, e, heap, iter) ==
    IF f.type # "function" THEN Result(TypeError, heap)
    ELSE CASE f.body = "literal" -> Result(ParseLiteral(f.fields.text), heap)
      [] f.body \in BinaryTypes ->
            LET l == Invoke(f.fields.left, e, heap, MaxIter)
            IN  IF Abrupt(l.value) THEN l
                ELSE LET r == Invoke(f.fields.right, e, l.heap, MaxIter)
                     IN  IF Abrupt(r.value) THEN r
                         ELSE Result(JsBinary(f.body, l.value, r.value), r.heap)
      [] f.body = "read" -> Result(GetProp(heap, e, f.fields.name), heap)
      [] f.body = "identity" -> Result(e, heap)
      [] f.body = "assign" ->
            LET v == Invoke(f.fields.expression, e, heap, MaxIter)
            IN  IF Abrupt(v.value) THEN v
                ELSE SetProp(v.heap, e, f.fields.name, v.value)
      [] f.body = "if" ->
            LET c == Invoke(f.fields.condition, e, heap, MaxIter)
            IN  IF Abrupt(c.value) THEN c
                ELSE IF ToBoolean(c.value)
                THEN Invoke(f.fields.consequence, e, c.heap, MaxIter)
                ELSE Invoke(f.fields.alternative, e, c.heap, MaxIter)
      [] f.body = "compose" ->
            LET first == Invoke(f.fields.first, e, heap, MaxIter)
            IN  IF Abrupt(first.value) THEN first
                ELSE Invoke(f.fields.second, first.value, first.heap, MaxIter)
      [] f.body = "while" ->
            LET c == Invoke(f.fields.condition, e, heap, MaxIter)
            IN  IF Abrupt(c.value) THEN c
                ELSE IF ToBoolean(c.value)
                THEN IF iter = 0 THEN Result(Diverge, c.heap)
                     ELSE LET b == Invoke(f.fields.body, e, c.heap, MaxIter)
                          IN  IF Abrupt(b.value) THEN b
                              ELSE Invoke(f, b.value, b.heap, iter - 1)
                ELSE Result(e, c.heap)

\* ------------------------------------------------ bounded sets of inputs
Names == {"x", "y"}

Numbers == {Num(n) : n \in 0..MaxNum}
Booleans == {Bool(TRUE), Bool(FALSE)}
Literals == Numbers \cup Booleans
Variables == {Variable(n) : n \in Names}
Leaves == Literals \cup Variables

\* expressions with at most k operators in which "x" stands where a number
\* and "y" where a boolean is expected (the environment decides whether the
\* variable really holds one)
RECURSIVE NumberExprs(_)
NumberExprs(k) ==
    IF k = 0 THEN {Num(1), Num(MaxNum), Variable("x")}
    ELSE NumberExprs(k - 1) \cup
         UNION {{Binary(t, l, r) : t \in {"Add", "Multiply"},
                                   l \in NumberExprs(i), r \in NumberExprs(k - 1 - i)}
                : i \in 0..(k - 1)}

BooleanExprs(k) ==
    Booleans \cup {Variable("y")} \cup
    IF k = 0 THEN {}
    ELSE UNION {{LessThan(l, r) : l \in NumberExprs(i), r \in NumberExprs(k - 1 - i)}
                : i \in 0..(k - 1)}

\* every expression with at most one operator, ill-typed ones included
FlatExprs == Leaves \cup {Binary(t, l, r) : t \in BinaryTypes, l \in Leaves, r \in Leaves}

DeepExprs == NumberExprs(MaxOps) \cup BooleanExprs(MaxOps)

\* environments as the samples build them: names bound to literal nodes
PropsOver(names, values) ==
    UNION {[dom -> values] : dom \in SUBSET names}
Envs == PropsOver(Names, Literals)
XEnvs == PropsOver({"x"}, Literals)

\* environments as the samples hand them to compiled code: names bound to
\* primitive values
RawEnvs == PropsOver(Names, {l.value : l \in Literals})
XRawEnvs == PropsOver({"x"}, {l.value : l \in Literals})

\* statements
StmtExprs == Leaves \cup {Binary(t, Variable("x"), Num(1)) : t \in BinaryTypes}
Conditions == Booleans \cup {Variable("y"), LessThan(Variable("x"), Num(MaxNum)),
                            Num(MaxNum)}
Atoms == {DoNothing} \cup {Assign(n, e) : n \in Names, e \in StmtExprs}
SmallAtoms == {Assign("x", Add(Variable("x"), Num(1))), Assign("y", Bool(FALSE))}

Compound(atoms) ==
    {If(c, a, b) : c \in Conditions, a \in atoms, b \in atoms \cap (SmallAtoms \cup {DoNothing})}
    \cup {Sequence(a, b) : a \in atoms,
                           b \in atoms \cap (SmallAtoms \cup {DoNothing,
                                     Assign("y", LessThan(Variable("x"), Num(1)))})}
    \cup {While(c, a) : c \in Conditions, a \in atoms}

Nested ==
    {Sequence(s, a) : s \in Compound(SmallAtoms), a \in SmallAtoms}
    \cup {While(c, s) : c \in Conditions, s \in Compound(SmallAtoms)}

Statements == Atoms \cup Compound(Atoms) \cup Nested

\* the sample programs at the end of the source, with their environments
SampleAssign == Assign("x", Add(Variable("x"), Num(1)))
SampleAssignEnv == [n \in {"x"} |-> Num(2)]
SampleIf == If(Variable("x"), Assign("y", Num(1)), Assign("y", Num(2)))
SampleIfEnv == [n \in {"x"} |-> Bool(TRUE)]
SampleSequence == Sequence(Assign("x", Add(Num(1), Num(1))),
                           Assign("y", Add(Variable("x"), Num(3))))
SampleWhile == While(LessThan(Variable("x"), Num(5)),
                     Assign("x", Multiply(Variable("x"), Num(3))))
SampleWhileEnv == [n \in {"x"} |-> Num(1)]
SampleLessThan == LessThan(Add(Variable("x"), Num(2)), Variable("y"))
SampleLessThanEnv == [n \in {"x", "y"} |-> IF n = "x" THEN Num(4) ELSE Num(5)]
SampleIfRawEnv == [n \in {"x"} |-> JsBoolean(FALSE)]
SampleWhileRawEnv == [n \in {"x"} |-> JsNumber(1)]

Input(node, props) == [node |-> node, props |-> props]

MachineSamples ==
    {Input(SampleAssign, SampleAssignEnv), Input(SampleIf, SampleIfEnv),
     Input(SampleIf, [n \in {"x"} |-> Bool(FALSE)]),
     Input(SampleSequence, EmptyProps), Input(SampleWhile, SampleWhileEnv)}

CallSamples ==
    MachineSamples \cup
    {Input(SampleLessThan, SampleLessThanEnv), Input(SampleIf, SampleIfRawEnv),
     Input(SampleIf, [n \in {"x"} |-> JsBoolean(TRUE)]),
     Input(SampleWhile, SampleWhileRawEnv)}

\* ---------------------------------------------------------------- state
VARIABLES
    statement,  \* Machine.statement; the node a call is made on
    env,        \* Machine.env; the environment argument of a call
    heap,       \* the property table of every environment object
    pc,         \* where the driver is: "run", "reduce", "call", then how it ended
    steps,      \* completed calls of step / of reduce
    result,     \* what the call returned or threw
    input       \* the node and the environment contents the caller supplied

vars == <<statement, env, heap, pc, steps, result, input>>

\* the one environment object the caller creates and passes in
CallerEnv == Object(1)

InitWith(in, start) ==
    /\ input = in
    /\ statement = in.node
    /\ env = CallerEnv
    /\ heap = [id \in {1} |-> in.props]
    /\ pc = start
    /\ steps = 0
    /\ result = undefined

\* a start from any node and any environment of two bounded sets
InitFrom(nodes, envs, start) ==
    \E node \in nodes, props \in envs : InitWith(Input(node, props), start)

\* ------------------------------------------------------------- Machine
\* new Machine(statement, env).run()
Init ==
    \/ InitFrom(Statements, Envs, "run")
    \/ \E in \in MachineSamples : InitWith(in, "run")

\* a run loop that calls step() before it tests reducible()
StepUntested ==
    /\ pc = "run"
    /\ steps < MaxSteps
    /\ CanAskReducible(statement)
    /\ LET reduced == reduce(statement, env, heap)
       IN  IF Abrupt(reduced.value) \/ Abrupt(Index0(reduced.value))
           THEN /\ pc' = "error"
                /\ result' = TypeError
                /\ heap' = reduced.heap
                /\ UNCHANGED <<statement, env, steps>>
           ELSE /\ statement' = Index0(reduced.value)
                /\ env' = Index1(reduced.value)
                /\ heap' = reduced.heap
                /\ steps' = steps + 1
                /\ UNCHANGED <<pc, result>>
    /\ UNCHANGED input

\* run's loop test holds and step() is called; an exception leaves run
Step ==
    /\ pc = "run"
    /\ steps < MaxSteps
    /\ CanAskReducible(statement) /\ reducible(statement)
    /\ LET reduced == reduce(statement, env, heap)
       IN  IF Abrupt(reduced.value) \/ Abrupt(Index0(reduced.value))
           THEN /\ pc' = "error"
                /\ result' = TypeError
                /\ heap' = reduced.heap
                /\ UNCHANGED <<statement, env, steps>>
           ELSE /\ statement' = Index0(reduced.value)
                /\ env' = Index1(reduced.value)
                /\ heap' = reduced.heap
                /\ steps' = steps + 1
                /\ UNCHANGED <<pc, result>>
    /\ UNCHANGED input

\* run's loop test fails (or throws, on a statement that is no node)
Finish ==
    /\ pc = "run"
    /\ ~(CanAskReducible(statement) /\ reducible(statement))
    /\ pc' = IF CanAskReducible(statement) THEN "end" ELSE "error"
    /\ UNCHANGED <<statement, env, heap, steps, result, input>>

Next == Step \/ Finish

Spec == Init /\ [][Next]_vars

\* ------------------------------------------- repeated expression reduce
\* an expression is reduced under env, one reduce call at a time, for as long
\* as reducible() answers true
InitExpr ==
    \/ InitFrom(DeepExprs, XEnvs, "reduce")
    \/ InitFrom(FlatExprs, Envs, "reduce")
    \/ InitWith(Input(SampleLessThan, SampleLessThanEnv), "reduce")

ReduceExpr ==
    /\ pc = "reduce"
    /\ steps < MaxSteps
    /\ CanAskReducible(statement) /\ reducible(statement)
    /\ LET reduced == reduce(statement, env, heap)
       IN  IF Abrupt(reduced.value)
           THEN /\ pc' = "error"
                /\ result' = TypeError
                /\ UNCHANGED <<statement, steps>>
           ELSE /\ statement' = reduced.value
                /\ steps' = steps + 1
                /\ UNCHANGED <<pc, result>>
    /\ UNCHANGED <<env, heap, input>>

\* reducible() answers false: the expression is the result; reducible()
\* called on a value that is no node throws
StopExpr ==
    /\ pc = "reduce"
    /\ ~(CanAskReducible(statement) /\ reducible(statement))
    /\ IF CanAskReducible(statement)
       THEN pc' = "end" /\ result' = statement
       ELSE pc' = "error" /\ result' = TypeError
    /\ UNCHANGED <<statement, env, heap, steps, input>>

NextExpr == ReduceExpr \/ StopExpr

SpecExpr == InitExpr /\ [][NextExpr]_vars

\* ------------------------------------------------------- single calls
\* one call of node.evaluate(env), node.reduce(env) or eval(node.toJs())(env)
\* on a freshly built node and environment
InitCall ==
    \/ InitFrom(DeepExprs, XEnvs \cup XRawEnvs, "call")
    \/ InitFrom(FlatExprs \cup Statements, Envs \cup RawEnvs, "call")
    \/ \E in \in CallSamples : InitWith(in, "call")

Evaluate ==
    /\ pc = "call"
    /\ LET r == evaluate(statement, env, heap)
       IN  result' = r.value /\ heap' = r.heap
    /\ pc' = "evaluated"
    /\ UNCHANGED <<statement, env, steps, input>>

Reduce ==
    /\ pc = "call"
    /\ LET r == reduce(statement, env, heap)
       IN  result' = r.value /\ heap' = r.heap
    /\ pc' = "reduced"
    /\ UNCHANGED <<statement, env, steps, input>>

InvokeJs ==
    /\ pc = "call"
    /\ LET r == Invoke(toJs(statement), env, heap, MaxIter)
       IN  result' = r.value /\ heap' = r.heap
    /\ pc' = "invoked"
    /\ UNCHANGED <<statement, env, steps, input>>

NextCall == Evaluate \/ Reduce \/ InvokeJs

SpecCall == InitCall /\ [][NextCall]_vars

\* ---------------------------------------------------- typing of inputs
\* the type of what a name is bound to
ValueType(v) ==
    IF v.type \in {"number", "boolean"} THEN v.type
    ELSE IF v.type = "Number" /\ v.value.type = "number" THEN "number"
    ELSE IF v.type = "Boolean" /\ v.value.type = "boolean" THEN "boolean"
    ELSE "error"

TypeEnv(props) == [n \in DOMAIN props |-> ValueType(props[n])]

RECURSIVE ExprType(_, _)
ExprType(e, tenv) ==
    CASE e.type \in LiteralTypes -> ValueType(e)
      [] e.type = "Variable" -> IF e.name \in DOMAIN tenv THEN tenv[e.name] ELSE "error"
      [] e.type \in {"Add", "Multiply"} ->
            IF ExprType(e.left, tenv) = "number" /\ ExprType(e.right, tenv) = "number"
            THEN "number" ELSE "error"
      [] e.type = "LessThan" ->
            IF ExprType(e.left, tenv) = "number" /\ ExprType(e.right, tenv) = "number"
            THEN "boolean" ELSE "error"
      [] OTHER -> "error"

IsExpr(node) == node.type \in LiteralTypes \cup BinaryTypes \cup {"Variable"}

\* an expression is well typed under an environment when every variable is
\* bound to a literal and every operator gets operands of its type
ExprWellTyped(e, props) == ExprType(e, TypeEnv(props)) # "error"

Typed(tenv) == [ok |-> TRUE, tenv |-> tenv]
Untyped == [ok |-> FALSE]

\* the names two type environments agree on
Join(t1, t2) ==
    [n \in {m \in DOMAIN t1 \cap DOMAIN t2 : t1[m] = t2[m]} |-> t1[n]]

\* the type environment after a statement, Untyped when the statement is not
\* well typed; a loop is typed under the names whose type its body preserves
RECURSIVE StmtType(_, _)
StmtType(s, tenv) ==
    CASE s.type = "DoNothing" -> Typed(tenv)
      [] s.type = "Assign" ->
            LET t == ExprType(s.expression, tenv)
            IN  IF t = "error" THEN Untyped
                ELSE Typed([n \in DOMAIN tenv \cup {s.name} |->
                               IF n = s.name THEN t ELSE tenv[n]])
      [] s.type = "If" ->
            LET a == StmtType(s.consequence, tenv)
                b == StmtType(s.alternative, tenv)
            IN  IF ExprType(s.condition, tenv) # "boolean" \/ ~a.ok \/ ~b.ok THEN Untyped
                ELSE Typed(Join(a.tenv, b.tenv))
      [] s.type = "Sequence" ->
            LET a == StmtType(s.first, tenv)
            IN  IF ~a.ok THEN Untyped ELSE StmtType(s.second, a.tenv)
      [] s.type = "While" ->
            LET b == StmtType(s.body, tenv)
            IN  IF ExprType(s.condition, tenv) # "boolean" \/ ~b.ok THEN Untyped
                ELSE IF Join(tenv, b.tenv) = tenv THEN Typed(tenv)
                ELSE StmtType(s, Join(tenv, b.tenv))
      [] OTHER -> Untyped

WellTyped(node, props) ==
    /\ \A n \in DOMAIN props : ValueType(props[n]) # "error"
    /\ IF IsExpr(node) THEN ExprWellTyped(node, props)
       ELSE StmtType(node, TypeEnv(props)).ok

\* the heap a call starts from
HeapOf(props) == [id \in {1} |-> props]
Props(h) == h[CallerEnv.id]

\* ------------------------------------------------------------- claims

\* C1: repeatedly reducing a well-typed expression under an environment that
\* binds its variables to literals ends, without an exception, in a literal
\* node, and that literal is what evaluate returns for the expression.
C1_ReduceToEvaluate ==
    ExprWellTyped(input.node, input.props) =>
        /\ pc # "error"
        /\ pc = "end" =>
              /\ statement.type \in LiteralTypes
              /\ statement = evaluate(input.node, CallerEnv, HeapOf(input.props)).value
              /\ result.value = GetValue(evaluate(input.node, CallerEnv,
                                                  HeapOf(input.props)).value)

C1_Witness ==
    /\ pc = "end"
    /\ ExprWellTyped(input.node, input.props)
    /\ input.node.type = "LessThan"
    /\ input.node.left.type = "Variable"
    /\ input.node.right.type = "Add"
    /\ steps = 4
    /\ statement = Bool(TRUE)

\* a value with every literal node replaced by the primitive it holds; an
\* environment object is compared by its property table
RawValue(v) == IF v.type \in LiteralTypes THEN v.value ELSE v
RawOf(v, h) ==
    IF v.type = "Object"
    THEN [type |-> "Object", props |-> [n \in DOMAIN h[v.id] |-> RawValue(h[v.id][n])]]
    ELSE RawValue(v)

\* a primitive as the literal node holding it
NodeValue(v) ==
    IF v.type = "number" THEN Number(v)
    ELSE IF v.type = "boolean" THEN Boolean(v) ELSE v
NodeProps(props) == [n \in DOMAIN props |-> NodeValue(props[n])]

EvaluatedInput == evaluate(input.node, CallerEnv, HeapOf(input.props))

\* C2 as stated: on an environment that binds names to literal nodes, the
\* function built from toJs returns what evaluate returns (the same value for
\* an expression, the same final environment for a statement).
C2_CompiledEqualsEvaluate ==
    (pc = "invoked" /\ input.props \in Envs /\ WellTyped(input.node, input.props)) =>
        RawOf(result, heap) = RawOf(EvaluatedInput.value, EvaluatedInput.heap)

\* C2 amended: called on the environment that binds each name to the
\* primitive value of its literal, the function built from toJs returns the
\* primitive image of what evaluate returns on the environment of literals.
C2_CompiledOnPrimitives ==
    (pc = "invoked" /\ input.props \in RawEnvs
        /\ WellTyped(input.node, NodeProps(input.props))) =>
        LET ev == evaluate(input.node, CallerEnv, HeapOf(NodeProps(input.props)))
        IN  RawOf(result, heap) = RawOf(ev.value, ev.heap)

C2_Witness ==
    /\ pc = "invoked"
    /\ input.props \in RawEnvs
    /\ WellTyped(input.node, NodeProps(input.props))
    /\ input.node.type = "While"
    /\ input.node.body.type = "If"
    /\ result = CallerEnv
    /\ Props(heap) # input.props

\* C3: Assign(name, expr).evaluate(env) returns an environment in which name
\* is bound to what expr.evaluate(env) returns, with every other binding of
\* env as it was and no further name bound.
C3_AssignUpdatesOneBinding ==
    (pc = "evaluated" /\ input.node.type = "Assign") =>
        LET v == evaluate(input.node.expression, CallerEnv, HeapOf(input.props))
        IN  ~Abrupt(v.value) =>
               /\ result.type = "Object"
               /\ DOMAIN heap[result.id] = DOMAIN input.props \cup {input.node.name}
               /\ heap[result.id][input.node.name] = v.value
               /\ \A n \in DOMAIN input.props \ {input.node.name} :
                      heap[result.id][n] = input.props[n]

C3_Witness ==
    /\ pc = "evaluated"
    /\ input.node.type = "Assign"
    /\ input.node.expression.type = "Add"
    /\ input.node.name \notin DOMAIN input.props
    /\ DOMAIN input.props # {}
    /\ result = CallerEnv
    /\ Props(heap)[input.node.name] = Num(2)

\* C4: whatever steps the Machine makes, the environment object the caller
\* passed in keeps exactly the bindings it had when it was passed.
C4_CallerEnvUntouched == Props(heap) = input.props

\* the failures the specification asks for
UnboundVariable(name) == [type |-> "UnboundVariable", name |-> name]
TypeMismatch == [type |-> "TypeMismatch"]

\* C5: a lookup of a name the environment does not bind, by Variable.reduce,
\* Variable.evaluate or the compiled read, fails with UnboundVariable(name).
C5_UnboundLookupFails ==
    (pc \in {"evaluated", "reduced", "invoked"} /\ input.node.type = "Variable"
        /\ input.node.name \notin DOMAIN input.props) =>
        result = UnboundVariable(input.node.name)

\* C6: If.reduce, If.evaluate and While.evaluate fail with TypeMismatch when
\* the condition has come out as a value that is neither true nor false.
C6_NonBooleanConditionFails ==
    LET c == evaluate(input.node.condition, CallerEnv, HeapOf(input.props))
    IN  (/\ \/ pc = "evaluated" /\ input.node.type \in {"If", "While"}
            \/ pc = "reduced" /\ input.node.type = "If"
                  /\ ~reducible(input.node.condition)
         /\ c.value.type = "Number") =>
            result = TypeMismatch

IsSampleAssign == input = Input(SampleAssign, SampleAssignEnv)

\* C7 as stated: the run of x = x + 1 from {x: 2} is at (do-nothing, {x: 3})
\* after exactly 2 calls of step.
C7_DoneAfterTwoSteps ==
    (IsSampleAssign /\ steps = 2) =>
        statement = DoNothing /\ Props(heap) = [n \in {"x"} |-> Num(3)]

\* C7 amended: the run of x = x + 1 from {x: 2} is at (do-nothing, {x: 3})
\* after exactly 3 calls of step (the variable, the sum, the assignment), not
\* before, and that is the state the run ends in.
C7_DoneAfterThreeSteps ==
    IsSampleAssign =>
        /\ pc # "error"
        /\ steps <= 3
        /\ steps < 3 => reducible(statement) /\ pc = "run"
        /\ steps = 3 => /\ statement = DoNothing
                        /\ env = CallerEnv
                        /\ Props(heap) = [n \in {"x"} |-> Num(3)]

C7_Witness == IsSampleAssign /\ pc = "end" /\ steps = 3 /\ statement = DoNothing

IsSampleWhile == input = Input(SampleWhile, SampleWhileEnv)
BoundTo(name, n) == name \in DOMAIN Props(heap) /\ Props(heap)[name] = Num(n)

\* C8: the run of while (x < 5) { x = x * 3 } from {x: 1} goes on, without an
\* exception, until the statement is irreducible, which it is after 20 steps
\* with environment {x: 9}; x is 1 (up to step 6), then 3 (steps 7 to 14),
\* then 9, and never anything else; While.evaluate returns {x: 9} on the same
\* input.
C8_WhileSample ==
    IsSampleWhile =>
        /\ pc # "error"
        /\ steps <= 20
        /\ steps < 20 => reducible(statement) /\ pc = "run"
        /\ steps = 20 => statement = DoNothing
        /\ ~reducible(statement) => Props(heap) = [n \in {"x"} |-> Num(9)]
        /\ DOMAIN Props(heap) = {"x"}
        /\ steps <= 6 => BoundTo("x", 1)
        /\ (7 <= steps /\ steps <= 14) => BoundTo("x", 3)
        /\ 15 <= steps => BoundTo("x", 9)
        /\ EvaluatedInput.value = CallerEnv
        /\ Props(EvaluatedInput.heap) = [n \in {"x"} |-> Num(9)]

C8_Witness ==
    /\ IsSampleWhile
    /\ pc = "end"
    /\ statement = DoNothing
    /\ steps = 20
    /\ BoundTo("x", 9)

\* C9: If(cond, cons, alt).evaluate(env) is cons.evaluate(env) when cond
\* evaluates to true and alt.evaluate(env) when it evaluates to false, the
\* branch being evaluated under the environment the If was given; the sample
\* if (x) { y = 1 } else { y = 2 } gives {x: true, y: 1} and {x: false, y: 2}.
C9_IfEvaluatesBranch ==
    (pc = "evaluated" /\ input.node.type = "If") =>
        LET h0 == HeapOf(input.props)
            c == evaluate(input.node.condition, CallerEnv, h0)
            cons == evaluate(input.node.consequence, CallerEnv, h0)
            alt == evaluate(input.node.alternative, CallerEnv, h0)
        IN  /\ c.value = Bool(TRUE) => result = cons.value /\ heap = cons.heap
            /\ c.value = Bool(FALSE) => result = alt.value /\ heap = alt.heap
            /\ input = Input(SampleIf, SampleIfEnv) =>
                  /\ result = CallerEnv
                  /\ Props(heap) = [n \in {"x", "y"} |->
                                       IF n = "x" THEN Bool(TRUE) ELSE Num(1)]
            /\ input = Input(SampleIf, [n \in {"x"} |-> Bool(FALSE)]) =>
                  /\ result = CallerEnv
                  /\ Props(heap) = [n \in {"x", "y"} |->
                                       IF n = "x" THEN Bool(FALSE) ELSE Num(2)]

C9_Witness ==
    /\ pc = "evaluated"
    /\ input = Input(SampleIf, [n \in {"x"} |-> Bool(FALSE)])
    /\ result = CallerEnv
    /\ BoundTo("y", 2)

\* C10: Sequence(s1, s2).evaluate(env) is s2.evaluate(s1.evaluate(env)): s2
\* is evaluated under what s1 returned and its result is the result; the
\* sample x = 1 + 1; y = x + 3 gives {x: 2, y: 5} from {}.
C10_SequenceThreadsEnv ==
    (pc = "evaluated" /\ input.node.type = "Sequence") =>
        LET s1 == evaluate(input.node.first, CallerEnv, HeapOf(input.props))
            s2 == evaluate(input.node.second, s1.value, s1.heap)
        IN  /\ ~Abrupt(s1.value) => result = s2.value /\ heap = s2.heap
            /\ Abrupt(s1.value) => result = s1.value /\ heap = s1.heap
            /\ input = Input(SampleSequence, EmptyProps) =>
                  /\ result = CallerEnv
                  /\ Props(heap) = [n \in {"x", "y"} |->
                                       IF n = "x" THEN Num(2) ELSE Num(5)]

C10_Witness ==
    /\ pc = "evaluated"
    /\ input = Input(SampleSequence, EmptyProps)
    /\ result = CallerEnv
    /\ BoundTo("x", 2)
    /\ BoundTo("y", 5)

\* C11: run starts from the statement and environment the caller supplied;
\* while the statement is reducible a step replaces statement and environment
\* by what statement.reduce(env) returns; at the first irreducible statement
\* the run ends and nothing changes any more, so the state the run ends in is
\* the first irreducible one.
C11_RunStopsAtFirstIrreducible ==
    /\ [](/\ steps = 0 => statement = input.node /\ env = CallerEnv
                          /\ Props(heap) = input.props
          /\ pc = "end" => ~reducible(statement))
    /\ [][/\ (pc = "run" /\ reducible(statement)) =>
                LET reduced == reduce(statement, env, heap)
                IN  \/ /\ steps' = steps + 1
                       /\ statement' = Index0(reduced.value)
                       /\ env' = Index1(reduced.value)
                       /\ heap' = reduced.heap
                       /\ pc' = "run"
                    \/ /\ pc' = "error"
                       /\ UNCHANGED <<statement, env, steps>>
          /\ (pc = "run" /\ ~reducible(statement)) =>
                pc' = "end" /\ UNCHANGED <<statement, env, heap, steps>>
          /\ pc # "run" => UNCHANGED vars]_vars

C11_Witness ==
    /\ pc = "end"
    /\ input.node.type = "Sequence"
    /\ input.node.first.type = "While"
    /\ steps >= 8
    /\ statement = DoNothing

\* the shape one reduction step of an operator node must have: the left
\* operand moves while it is reducible, then the right one, then the operator
RECURSIVE OperandOrder(_, _)
OperandOrder(before, after) ==
    IF before.type \notin BinaryTypes THEN TRUE
    ELSE IF reducible(before.left)
    THEN /\ after.type = before.type
         /\ after.right = before.right
         /\ OperandOrder(before.left, after.left)
    ELSE IF reducible(before.right)
    THEN /\ after.type = before.type
         /\ after.left = before.left
         /\ OperandOrder(before.right, after.right)
    ELSE /\ after.type \in LiteralTypes
         /\ after = Compute(before.type, GetValue(before.left), GetValue(before.right))

\* C12: in a reduction sequence of an Add, Multiply or LessThan node, at every
\* depth, a step taken while the left operand is reducible leaves the right
\* operand identical, a step taken while the left is a literal and the right
\* is reducible leaves the left identical, and the node becomes the
\* operator's literal only in a step taken when both operands are literals.
C12_LeftOperandFirst ==
    [][(statement.type \in BinaryTypes /\ steps' = steps + 1) =>
            OperandOrder(statement, statement')]_vars

C12_Witness ==
    /\ pc = "reduce"
    /\ steps >= 2
    /\ input.node.type \in BinaryTypes
    /\ input.node.left.type \in BinaryTypes
    /\ statement.type \in BinaryTypes
    /\ statement.left.type = "Number"
    /\ reducible(statement.right)
    /\ statement.right = input.node.right

\* C13: While(cond, body).reduce(env) returns, whatever cond, body and env
\* are and whatever cond would evaluate to, the statement
\* If(cond, Sequence(body, W), DoNothing), W being the While itself, together
\* with the environment it was given, whose bindings it leaves alone.
C13_WhileUnrollsOnce ==
    (pc = "reduced" /\ input.node.type = "While") =>
        /\ result = Array(If(input.node.condition,
                             Sequence(input.node.body, input.node),
                             DoNothing),
                          CallerEnv)
        /\ heap = HeapOf(input.props)

C13_Witness ==
    /\ pc = "reduced"
    /\ input.node.type = "While"
    /\ input.node.condition = Num(MaxNum)
    /\ input.node.body.type = "Assign"
    /\ result.type = "Array"
    /\ Index0(result).consequence.second = input.node

\* C14: a step of Sequence(first, second) whose first is DoNothing yields
\* second and the same environment; any other step yields
\* Sequence(first', second) and env' where (first', env') is what
\* first.reduce(env) returned, second being carried over unchanged, so that
\* second makes no step before first has become DoNothing.
C14_SequenceReducesFirst ==
    [][(pc = "run" /\ statement.type = "Sequence" /\ steps' = steps + 1) =>
            IF statement.first = DoNothing
            THEN /\ statement' = statement.second
                 /\ env' = env
                 /\ heap' = heap
            ELSE LET reduced == reduce(statement.first, env, heap)
                 IN  /\ statement' = Sequence(Index0(reduced.value), statement.second)
                     /\ env' = Index1(reduced.value)
                     /\ heap' = reduced.heap]_vars

C14_Witness ==
    /\ pc = "run"
    /\ steps >= 2
    /\ input.node.type = "Sequence"
    /\ input.node.first.type = "If"
    /\ statement.type = "Sequence"
    /\ statement.first = DoNothing
    /\ statement.second = input.node.second
    /\ reducible(statement.second)

\* the statement a step works on: the head of the leading chain of Sequences
RECURSIVE ActiveStatement(_)
ActiveStatement(s) ==
    IF s.type = "Sequence" /\ s.first # DoNothing THEN ActiveStatement(s.first)
    ELSE s

\* the statement with the one a step works on replaced
RECURSIVE ReplaceActive(_, _)
ReplaceActive(s, new) ==
    IF s.type = "Sequence" /\ s.first # DoNothing
    THEN Sequence(ReplaceActive(s.first, new), s.second)
    ELSE new

\* C15: the one Machine step that changes the environment is the step that
\* reduces an Assign whose expression is a literal; it sets exactly the
\* binding of the assigned name and makes that Assign DoNothing.  Every other
\* step (inside an Assign's expression, on an If, on a While, dropping a
\* leading DoNothing) leaves every binding as it was, and so does a step that
\* throws.
C15_OnlyAssignChangesEnv ==
    [][/\ (pc = "run" /\ steps' = steps + 1) =>
            LET a == ActiveStatement(statement)
            IN  /\ env' = env
                /\ IF a.type = "Assign" /\ ~reducible(a.expression)
                   THEN /\ a.expression.type \in LiteralTypes
                        /\ Props(heap') =
                              [n \in DOMAIN Props(heap) \cup {a.name} |->
                                  IF n = a.name THEN a.expression ELSE Props(heap)[n]]
                        /\ statement' = ReplaceActive(statement, DoNothing)
                   ELSE heap' = heap
       /\ steps' = steps => heap' = heap]_vars

C15_Witness ==
    /\ pc = "end"
    /\ input.node.type = "While"
    /\ input.node.body.type = "Sequence"
    /\ DOMAIN input.props = {"x"}
    /\ DOMAIN Props(heap) = {"x", "y"}
    /\ Props(heap)["x"] # input.props["x"]

\* the names a statement can assign
RECURSIVE AssignedNames(_)
AssignedNames(s) ==
    CASE s.type = "Assign" -> {s.name}
      [] s.type = "If" -> AssignedNames(s.consequence) \cup AssignedNames(s.alternative)
      [] s.type = "Sequence" -> AssignedNames(s.first) \cup AssignedNames(s.second)
      [] s.type = "While" -> AssignedNames(s.body)
      [] OTHER -> {}

\* a loop whose condition is true in every environment its run can reach:
\* the literal true, or x < MaxNum with x bound below MaxNum and never assigned
ConditionStaysTrue(node, props) ==
    /\ node.type = "While"
    /\ \/ node.condition = Bool(TRUE)
       \/ /\ node.condition = LessThan(Variable("x"), Num(MaxNum))
          /\ "x" \in DOMAIN props
          /\ props["x"] \in {Num(n) : n \in 0..(MaxNum - 1)}
          /\ "x" \notin AssignedNames(node.body)

\* C16: the Machine run of a While whose condition is true in every
\* environment the run reaches never arrives at an irreducible statement and
\* never ends; as long as no step throws it goes on unrolling the loop, and
\* While.evaluate on the same input does not return an environment either.
C16_LoopNeverEnds ==
    ConditionStaysTrue(input.node, input.props) =>
        /\ reducible(statement)
        /\ pc # "end"
        /\ EvaluatedInput.value \in {Diverge, TypeError}
        /\ WellTyped(input.node, input.props) =>
              pc = "run" /\ EvaluatedInput.value = Diverge

C16_Witness ==
    /\ ConditionStaysTrue(input.node, input.props)
    /\ input.node.condition.type = "LessThan"
    /\ input.node.body = Assign("y", Bool(FALSE))
    /\ steps = MaxSteps
    /\ pc = "run"
    /\ "y" \in DOMAIN Props(heap)

\* C17: when the Machine run of a well-typed statement, started from an
\* environment that binds every variable the statement reads to a literal,
\* has ended, its final environment is the environment evaluate returns for
\* the same statement and initial environment: evaluate returns an
\* environment, and it holds the same bindings.
C17_RunAgreesWithEvaluate ==
    (pc = "end" /\ ~IsExpr(input.node) /\ WellTyped(input.node, input.props)) =>
        /\ env = CallerEnv
        /\ EvaluatedInput.value = CallerEnv
        /\ Props(heap) = Props(EvaluatedInput.heap)

C17_Witness ==
    /\ pc = "end"
    /\ WellTyped(input.node, input.props)
    /\ input.node.type = "While"
    /\ input.node.body.type = "Sequence"
    /\ steps > 10
    /\ Props(heap) # input.props
    /\ Props(heap) = Props(EvaluatedInput.heap)

\* whether a statement has a While node in it
RECURSIVE HasWhile(_)
HasWhile(s) ==
    CASE s.type = "While" -> TRUE
      [] s.type = "If" -> HasWhile(s.consequence) \/ HasWhile(s.alternative)
      [] s.type = "Sequence" -> HasWhile(s.first) \/ HasWhile(s.second)
      [] OTHER -> FALSE

Max(a, b) == IF a >= b THEN a ELSE b

\* an upper bound of the number of steps left in a statement without While
RECURSIVE Measure(_)
Measure(s) ==
    CASE s.type \in BinaryTypes -> Measure(s.left) + Measure(s.right) + 1
      [] s.type = "Variable" -> 1
      [] s.type = "Assign" -> Measure(s.expression) + 1
      [] s.type = "If" ->
            Measure(s.condition) + Max(Measure(s.consequence), Measure(s.alternative)) + 1
      [] s.type = "Sequence" -> Measure(s.first) + Measure(s.second) + 1
      [] OTHER -> 0

\* C18: the Machine run of a statement without a While node, from an
\* environment that binds the variables it reads to literals of the right
\* type, ends after finitely many steps: a measure of the statement goes down
\* by at least one in every step (so the steps taken never exceed the measure
\* of the initial statement), every reducible state has a step to take, and
\* no step throws.
C18_NoWhileTerminates ==
    (~HasWhile(input.node) /\ WellTyped(input.node, input.props)) =>
        /\ steps + Measure(statement) <= Measure(input.node)
        /\ Measure(input.node) < MaxSteps
        /\ pc # "error"
        /\ (pc = "run" /\ reducible(statement)) =>
              /\ Measure(statement) > 0
              /\ ~Abrupt(reduce(statement, env, heap).value)
        /\ ~reducible(statement) => Measure(statement) = 0

C18_Witness ==
    /\ pc = "end"
    /\ ~HasWhile(input.node)
    /\ WellTyped(input.node, input.props)
    /\ input.node.type = "Sequence"
    /\ input.node.first.type = "If"
    /\ steps = Measure(input.node)
    /\ steps >= 6

\* C19: a well-typed statement, run from an environment that binds every
\* variable it reads before assigning it to a literal of the right type,
\* never gets stuck: in every reducible state reduce returns a statement and
\* an environment, no step throws, the statement stays well-typed under the
\* current bindings, and the only statement the run ends at is DoNothing.
C19_WellTypedNeverStuck ==
    WellTyped(input.node, input.props) =>
        /\ pc # "error"
        /\ IsNode(statement)
        /\ WellTyped(statement, Props(heap))
        /\ (pc = "run" /\ reducible(statement)) =>
              LET reduced == reduce(statement, env, heap)
              IN  /\ reduced.value.type = "Array"
                  /\ IsNode(Index0(reduced.value))
                  /\ Index1(reduced.value) = CallerEnv
        /\ ~reducible(statement) => statement = DoNothing
        /\ pc = "end" => statement = DoNothing

C19_Witness ==
    /\ pc = "end"
    /\ WellTyped(input.node, input.props)
    /\ HasWhile(input.node)
    /\ input.node.type = "Sequence"
    /\ statement = DoNothing
    /\ steps >= 12

\* a Number node holding a number or a Boolean node holding a boolean
IsLiteralNode(v) ==
    \/ v.type = "Number" /\ v.value.type = "number"
    \/ v.type = "Boolean" /\ v.value.type = "boolean"

\* C20: if the initial environment binds names only to irreducible literal
\* nodes (Number or Boolean), every binding of the environment is an
\* irreducible literal node in every state the Machine reaches, whatever the
\* statement; hence one reduction step of a bound Variable yields an
\* irreducible node.
C20_BindingsStayLiterals ==
    (\A n \in DOMAIN input.props : IsLiteralNode(input.props[n])) =>
        \A n \in DOMAIN Props(heap) :
            /\ IsLiteralNode(Props(heap)[n])
            /\ ~reducible(Props(heap)[n])
            /\ LET reduced == reduce(Variable(n), env, heap)
               IN  /\ IsNode(reduced.value)
                   /\ ~reducible(reduced.value)
                   /\ reduced.heap = heap

C20_Witness ==
    /\ pc = "end"
    /\ ~WellTyped(input.node, input.props)
    /\ "x" \in DOMAIN input.props
    /\ input.props["x"].type = "Boolean"
    /\ Props(heap)["x"].type = "Number"
    /\ "y" \in DOMAIN Props(heap)
    /\ "y" \notin DOMAIN input.props

====
